---- MODULE Spec2Model ----
(***************************************************************************)
(* A model of numbersSolver.py, a Monte-Carlo solver for the Countdown     *)
(* numbers game: the RPN evaluator (rpnEvaluate), the random sequence      *)
(* generator (generateRandomSequence), the infix formatter                 *)
(* (formatSolution) and the search loop of __main__.                       *)
(*                                                                         *)
(* Tokens of a sequence are Python ints or one-character strings; they are *)
(* tagged records here ([kind |-> "int", val |-> 7], [kind |-> "str",      *)
(* val |-> "+"]).  Python strings are sequences of one-character strings.  *)
(***************************************************************************)
EXTENDS Integers, Sequences, FiniteSets, TLC

VARIABLES
    numbersIn,        \* args.numbers
    target,           \* args.target
    pc,               \* position of the program
    gen,              \* the frame of generateRandomSequence while it runs
    sequence,         \* the caller's sequence (line 183)
    interimResults,   \* the caller's interimResults (line 183), None before
    closestSolution,  \* None or <<result, sequence>> (lines 178-192)
    solutionAttempts, \* line 177
    fmt,              \* what formatSolution last returned (lines 173, 204)
    failed,           \* None or the <<closest, away>> printed by line 201
    rng,              \* state of the process-wide random source (line 9)
    rpn,              \* one call of rpnEvaluate: its arguments and outcome
    history           \* every interim result the search loop has examined

vars == <<numbersIn, target, pc, gen, sequence, interimResults,
          closestSolution, solutionAttempts, fmt, failed, rng, rpn, history>>

\* Python's None; also the value of a name that is not bound yet
None == <<>>

\* the generator is not running
NoFrame == [i |-> -1]

----------------------------------------------------------------------------
(* Tokens and small helpers on lists                                        *)

Num(n) == [kind |-> "int", val |-> n]

Op(o) == [kind |-> "str", val |-> o]

operatorSet == <<"+", "-", "*", "/">>

Last(s) == s[Len(s)]

Front(s) == SubSeq(s, 1, Len(s) - 1)

SetLast(s, v) == [s EXCEPT ![Len(s)] = v]

Abs(x) == IF x < 0 THEN -x ELSE x

----------------------------------------------------------------------------
(* rpnEvaluate(stack, element), lines 76-102.  The result records whether  *)
(* ValueError was raised and the stack as the call left it.                *)

\* a variant that also refuses a subtraction giving zero
rpnRaisedOnZero(stack, element) ==
    LET a == stack[Len(stack) - 1]
        b == stack[Len(stack)]
    IN  CASE element.val = "+" -> FALSE
          [] element.val = "-" -> a - b <= 0
          [] element.val = "*" -> FALSE
          [] element.val = "/" -> b = 0 \/ a % b # 0

rpnRaisedBeforePop(stack, element) ==
    LET a == stack[Len(stack) - 1]
        b == stack[Len(stack)]
    IN  CASE element.val = "+" -> FALSE
          [] element.val = "-" -> a - b < 0
          [] element.val = "*" -> FALSE
          [] element.val = "/" -> b = 0 \/ a % b # 0

rpnResult(stack, element) ==
    LET a == stack[Len(stack) - 1]
        b == stack[Len(stack)]
    IN  CASE element.val = "+" -> a + b
          [] element.val = "-" -> a - b
          [] element.val = "*" -> a * b
          [] element.val = "/" -> a \div b

\* a variant that pops before it checks, so a failure leaves the stack shorter
rpnEvaluatePopFirst(stack, element) ==
    IF element.kind = "str"
    THEN IF rpnRaisedBeforePop(stack, element)
         THEN [raised |-> TRUE, stack |-> Front(stack)]
         ELSE [raised |-> FALSE,
               stack  |-> SetLast(Front(stack), rpnResult(stack, element))]
    ELSE [raised |-> FALSE, stack |-> Append(stack, element.val)]

rpnEvaluate(stack, element) ==
    IF element.kind = "str"
    THEN IF rpnRaisedBeforePop(stack, element)
         THEN [raised |-> TRUE, stack |-> stack]
         ELSE [raised |-> FALSE,
               stack  |-> SetLast(Front(stack), rpnResult(stack, element))]
    ELSE [raised |-> FALSE, stack |-> Append(stack, element.val)]

----------------------------------------------------------------------------
(* generateRandomSequence(numbersIn), lines 32-74.  The random draws are   *)
(* parameters of the steps: the shuffled order (line 38), the coin of      *)
(* line 53 and the sampled operator order (line 63).                       *)

Perms(n) == {p \in [1..n -> 1..n] : \A a, b \in 1..n : a # b => p[a] # p[b]}

Shuffled(list, p) == [k \in 1..Len(list) |-> list[p[k]]]

OperatorOrders == {Shuffled(operatorSet, p) : p \in Perms(Len(operatorSet))}

\* a variant that copies interimResults after the shuffle instead of before
genEnterCopyAfterShuffle(numbersArg, shuffled) ==
    LET first  == Last(shuffled)
        second == Last(Front(shuffled))
    IN  [sequence       |-> <<Num(first), Num(second)>>,
         numbers        |-> Front(Front(shuffled)),
         interimResults |-> shuffled,
         stack          |-> <<first, second>>,
         i              |-> 0]

\* lines 34-41: the frame when the loop of line 42 is first reached
genEnter(numbersArg, shuffled) ==
    LET first  == Last(shuffled)
        second == Last(Front(shuffled))
    IN  [sequence       |-> <<Num(first), Num(second)>>,
         numbers        |-> Front(Front(shuffled)),
         interimResults |-> numbersArg,
         stack          |-> <<first, second>>,
         i              |-> 0]

\* a variant without the rule of lines 49-50 for an exhausted number list
nextElementCoinFirst(frame, coin) ==
    IF Len(frame.stack) < 2 THEN "number"
    ELSE IF coin THEN "number" ELSE "operator"

\* lines 46-56
nextElement(frame, coin) ==
    IF Len(frame.stack) < 2 THEN "number"
    ELSE IF Len(frame.numbers) = 0 THEN "operator"
    ELSE IF coin THEN "number" ELSE "operator"

\* a variant whose `operator` is the first one tried
RECURSIVE tryOperatorsRecordsFirst(_, _, _)
tryOperatorsRecordsFirst(stack, operators, k) ==
    LET r == rpnEvaluate(stack, Op(operators[k]))
    IN  IF ~r.raised \/ k = Len(operators)
        THEN [operator |-> operators[1], stack |-> r.stack, raised |-> r.raised]
        ELSE tryOperatorsRecordsFirst(r.stack, operators, k + 1)

\* lines 64-69: the operators are tried in order until one does not raise;
\* `operator` is the last one tried, the stack is as the last call left it
RECURSIVE tryOperators(_, _, _)
tryOperators(stack, operators, k) ==
    LET r == rpnEvaluate(stack, Op(operators[k]))
    IN  IF ~r.raised \/ k = Len(operators)
        THEN [operator |-> operators[k], stack |-> r.stack, raised |-> r.raised]
        ELSE tryOperators(r.stack, operators, k + 1)

\* a variant that reads the next number without popping it
genBodyNoPop(frame, coin, operators) ==
    IF nextElement(frame, coin) = "number"
    THEN [frame EXCEPT !.sequence = Append(@, Num(Last(frame.numbers))),
                       !.stack    = Append(@, Last(frame.numbers)),
                       !.i        = @ + 1]
    ELSE LET t == tryOperators(frame.stack, operators, 1)
         IN  [frame EXCEPT !.sequence       = Append(@, Op(t.operator)),
                           !.stack          = t.stack,
                           !.interimResults = Append(@, Last(t.stack)),
                           !.i              = @ + 1]

\* a variant that records the stack top as it was before the operator
genBodyRecordsBefore(frame, coin, operators) ==
    IF nextElement(frame, coin) = "number"
    THEN [frame EXCEPT !.sequence = Append(@, Num(Last(frame.numbers))),
                       !.stack    = Append(@, Last(frame.numbers)),
                       !.numbers  = Front(@),
                       !.i        = @ + 1]
    ELSE LET t == tryOperators(frame.stack, operators, 1)
         IN  [frame EXCEPT !.sequence       = Append(@, Op(t.operator)),
                           !.stack          = t.stack,
                           !.interimResults = Append(@, Last(frame.stack)),
                           !.i              = @ + 1]

\* lines 58-71: one pass of the loop body
genBody(frame, coin, operators) ==
    IF nextElement(frame, coin) = "number"
    THEN [frame EXCEPT !.sequence = Append(@, Num(Last(frame.numbers))),
                       !.stack    = Append(@, Last(frame.numbers)),
                       !.numbers  = Front(@),
                       !.i        = @ + 1]
    ELSE LET t == tryOperators(frame.stack, operators, 1)
         IN  [frame EXCEPT !.sequence       = Append(@, Op(t.operator)),
                           !.stack          = t.stack,
                           !.interimResults = Append(@, Last(t.stack)),
                           !.i              = @ + 1]

\* one pass fewer: range(8)
LoopStepsShort == 9 - 1

\* line 42: range(9)
LoopSteps == 9

\* numbers = numbersIn without copy(): the shuffle and the two pops of lines
\* 38-40 act on the caller's list
callerListAliased(numbersArg, shuffled) == Front(Front(shuffled))

\* line 36: the generator works on a copy, so the caller's list is after the
\* call what it was before
callerList(numbersArg, shuffled) == numbersArg

GenBegin(p) ==
    /\ gen' = genEnter(numbersIn, Shuffled(numbersIn, p))
    /\ numbersIn' = callerList(numbersIn, Shuffled(numbersIn, p))
    /\ pc' = "generate"

GenStep(coin, operators) ==
    /\ pc = "generate"
    /\ gen.i < LoopSteps
    /\ IF nextElement(gen, coin) = "number" /\ Len(gen.numbers) = 0
       THEN pc' = "IndexError" /\ UNCHANGED gen
       ELSE pc' = pc /\ gen' = genBody(gen, coin, operators)

GenReturn ==
    /\ pc = "generate"
    /\ gen.i = LoopSteps
    /\ sequence' = gen.sequence
    /\ interimResults' = gen.interimResults
    /\ gen' = NoFrame
    /\ pc' = "returned"

----------------------------------------------------------------------------
(* Python strings: str(int) and '({} {} {})'.format(l, op, r)               *)

Digits == <<"0", "1", "2", "3", "4", "5", "6", "7", "8", "9">>

RECURSIVE str(_)
str(n) ==
    IF n < 0 THEN <<"-">> \o str(-n)
    ELSE IF n < 10 THEN <<Digits[n + 1]>>
    ELSE str(n \div 10) \o <<Digits[(n % 10) + 1]>>

isnumeric(char) == \E d \in 1..Len(Digits) : Digits[d] = char

\* '({} {} {})'.format(l, op, r), lines 120 and 122
infix(l, op, r) == <<"(">> \o l \o <<" ", op, " ">> \o r \o <<")">>

\* lines 131-141: the number of maximal digit runs of a string
numbersUsedIn(string) ==
    Cardinality({k \in 1..Len(string) :
                    /\ isnumeric(string[k])
                    /\ (k = 1 \/ ~isnumeric(string[k - 1]))})

----------------------------------------------------------------------------
(* formatSolution(sequence, target, ignoreMultiplyByOne), lines 104-144.   *)
(* The loop state: the two stacks, how many tokens were consumed, whether  *)
(* the loop was left by break, and the exception that ended it, if any.    *)

fmtStart ==
    [calcStack |-> <<>>, outputStack |-> <<>>, consumed |-> 0,
     broke |-> FALSE, error |-> "none"]

\* a skip that forgets calcStack.pop()
fmtSkipKeepsOne(st) ==
    [st EXCEPT !.outputStack = Front(@),
               !.consumed    = @ + 1]

\* lines 111-113: a multiplication or division by 1 is skipped; the 1 leaves
\* both stacks
fmtSkip(st) ==
    [st EXCEPT !.calcStack   = Front(@),
               !.outputStack = Front(@),
               !.consumed    = @ + 1]

\* operands exchanged whatever the operator
fmtSwapAlways(element, o2, o1) == Len(o2) < Len(o1)

\* line 119: the operands of a commutative operator are exchanged when the
\* left one is the shorter string
fmtSwap(element, o2, o1) ==
    element.val \in {"+", "*"} /\ Len(o2) < Len(o1)

\* a loop that is never left early
fmtHitNever(calcStack, targetArg) == FALSE

\* line 127: the value just computed is the target
fmtHit(calcStack, targetArg) == Last(calcStack) = targetArg

\* lines 109-128: the loop body for one element
fmtBody(st, element, targetArg, ignoreMultiplyByOne) ==
    IF /\ ignoreMultiplyByOne
       /\ Len(st.calcStack) > 0
       /\ Last(st.calcStack) = 1
       /\ element.kind = "str"
       /\ element.val \in {"*", "/"}
    THEN IF Len(st.outputStack) = 0
         THEN [st EXCEPT !.error = "IndexError"]
         ELSE fmtSkip(st)
    ELSE IF element.kind = "str" /\ Len(st.calcStack) < 2
    THEN [st EXCEPT !.error = "IndexError"]
    ELSE LET r == rpnEvaluate(st.calcStack, element)
         IN  IF r.raised
             THEN [st EXCEPT !.calcStack = r.stack, !.error = "ValueError"]
             ELSE IF element.kind = "int"
             THEN [st EXCEPT !.calcStack   = r.stack,
                             !.outputStack = Append(@, str(element.val)),
                             !.consumed    = @ + 1]
             ELSE IF Len(st.outputStack) < 2
             THEN [st EXCEPT !.calcStack = r.stack, !.error = "IndexError"]
             ELSE LET o2 == st.outputStack[Len(st.outputStack) - 1]
                      o1 == Last(st.outputStack)
                      result ==
                          IF fmtSwap(element, o2, o1)
                          THEN infix(o1, element.val, o2)
                          ELSE infix(o2, element.val, o1)
                  IN  [st EXCEPT !.calcStack   = r.stack,
                                 !.outputStack = SetLast(Front(@), result),
                                 !.consumed    = @ + 1,
                                 !.broke       = fmtHit(r.stack, targetArg)]

\* lines 108-128: the loop, from element k on
RECURSIVE fmtLoop(_, _, _, _, _)
fmtLoop(st, seq, k, targetArg, ignoreMultiplyByOne) ==
    IF k > Len(seq) \/ st.broke \/ st.error # "none"
    THEN st
    ELSE fmtLoop(fmtBody(st, seq[k], targetArg, ignoreMultiplyByOne),
                 seq, k + 1, targetArg, ignoreMultiplyByOne)

\* lines 108-128: the loop states one after the other, from the one before
\* element k on: the state after each element processed
RECURSIVE fmtTrace(_, _, _, _, _)
fmtTrace(trace, seq, k, targetArg, ignoreMultiplyByOne) ==
    LET st == Last(trace)
    IN  IF k > Len(seq) \/ st.broke \/ st.error # "none"
        THEN trace
        ELSE fmtTrace(Append(trace, fmtBody(st, seq[k], targetArg,
                                            ignoreMultiplyByOne)),
                      seq, k + 1, targetArg, ignoreMultiplyByOne)

\* lines 104-144: the returned pair (output, numbersUsed), with the final
\* loop state and the arguments of the call
formatSolution(seq, targetArg, ignoreMultiplyByOne) ==
    LET st == fmtLoop(fmtStart, seq, 1, targetArg, ignoreMultiplyByOne)
    IN  IF st.error # "none"
        THEN [error |-> st.error, loop |-> st,
              target |-> targetArg, ignoreMultiplyByOne |-> ignoreMultiplyByOne]
        ELSE IF Len(st.outputStack) = 0
        THEN [error |-> "IndexError", loop |-> st,
              target |-> targetArg, ignoreMultiplyByOne |-> ignoreMultiplyByOne]
        ELSE [error |-> "none", loop |-> st,
              target |-> targetArg, ignoreMultiplyByOne |-> ignoreMultiplyByOne,
              output |-> Last(st.outputStack) \o <<" ", "=", " ">> \o str(targetArg),
              numbersUsed |-> numbersUsedIn(Last(st.outputStack))]

----------------------------------------------------------------------------
(* The process-wide random source (import random, line 9).  Its state is   *)
(* advanced by every draw; a draw's outcome is a function of the state.    *)

Modulus == 1009

Multiplier == 37

Increment == 101

Advance(r) == (r * Multiplier + Increment) % Modulus

\* random.random() < 0.5, line 53
CoinOf(r) == (r \div 7) % 2 = 0

RemoveAt(list, k) == SubSeq(list, 1, k - 1) \o SubSeq(list, k + 1, Len(list))

\* random.shuffle / random.sample: the arrangement of list the state selects
RECURSIVE Arrange(_, _)
Arrange(list, r) ==
    IF Len(list) = 0 THEN <<>>
    ELSE LET k == (r % Len(list)) + 1
         IN  <<list[k]>> \o Arrange(RemoveAt(list, k), r \div Len(list))

----------------------------------------------------------------------------
(* Bounds of the model                                                      *)

\* operands of the evaluator calls of SpecEval are 0..MaxValue
MaxValue == 4

\* stacks of the evaluator calls of SpecEval hold up to MaxDepth values
MaxDepth == 3

\* the search loop makes at most MaxAttempts attempts before time is up
MaxAttempts == 3

\* the random source of a search starts in one of the states 0..MaxSeed
MaxSeed == 249

\* the (args.numbers, args.target) pairs of Spec
Cases ==
    { <<(<<2, 2, 2, 2, 2, 2>>), 8>>,
      <<(<<1, 1, 1, 1, 1, 10>>), 10>> }

\* the (args.numbers, args.target) pairs of SpecSearch; every value an
\* expression over the six numbers can take is below 2^31
SearchCases ==
    { <<(<<2, 2, 2, 2, 2, 2>>), 999>>,
      <<(<<25, 8, 3, 1, 1, 6>>), 825>>,
      <<(<<1, 2, 3, 4, 5, 10>>), 21>>,
      <<(<<100, 1, 2, 3, 4, 5>>), 100>>,
      <<(<<99, 2, 2, 2, 2, 2>>), 100>> }

----------------------------------------------------------------------------
(* SpecEval: single calls of rpnEvaluate on bounded stacks                  *)

Range(list) == {list[k] : k \in 1..Len(list)}

Stacks == UNION {[1..n -> 0..MaxValue] : n \in 0..MaxDepth}

Elements == {Op(o) : o \in Range(operatorSet)} \cup {Num(n) : n \in 0..MaxValue}

Idle ==
    /\ gen = NoFrame
    /\ sequence = None
    /\ interimResults = None
    /\ closestSolution = None
    /\ solutionAttempts = 0
    /\ fmt = None
    /\ failed = None
    /\ history = {}

InitEval ==
    /\ Idle
    /\ numbersIn = <<>>
    /\ target = 0
    /\ rng = 0
    /\ pc = "rpnEvaluate"
    /\ \E s \in Stacks, e \in Elements :
          /\ e.kind = "str" => Len(s) >= 2
          /\ rpn = [before |-> s, element |-> e, stack |-> s, state |-> "called"]

Evaluate ==
    /\ pc = "rpnEvaluate"
    /\ rpn.state = "called"
    /\ LET r == rpnEvaluate(rpn.stack, rpn.element)
       IN  rpn' = [rpn EXCEPT !.stack = r.stack,
                              !.state = IF r.raised THEN "raised" ELSE "returned"]
    /\ UNCHANGED <<numbersIn, target, pc, gen, sequence, interimResults,
                   closestSolution, solutionAttempts, fmt, failed, rng, history>>

NextEval == Evaluate

SpecEval == InitEval /\ [][NextEval]_vars

----------------------------------------------------------------------------
(* Spec: one call of generateRandomSequence(args.numbers) with every       *)
(* outcome of its random draws, then formatSolution on what it returned    *)

Init ==
    /\ Idle
    /\ \E c \in Cases : numbersIn = c[1] /\ target = c[2]
    /\ rng = 0
    /\ rpn = None
    /\ pc = "start"

Call ==
    /\ pc = "start"
    /\ \E p \in Perms(Len(numbersIn)) : GenBegin(p)
    /\ UNCHANGED <<target, sequence, interimResults, closestSolution,
                   solutionAttempts, fmt, failed, rng, rpn, history>>

Step ==
    /\ pc = "generate"
    /\ \E coin \in BOOLEAN :
          IF nextElement(gen, coin) = "number"
          THEN GenStep(coin, operatorSet)
          ELSE \E operators \in OperatorOrders : GenStep(coin, operators)
    /\ UNCHANGED <<numbersIn, target, sequence, interimResults, closestSolution,
                   solutionAttempts, fmt, failed, rng, rpn, history>>

Return ==
    /\ GenReturn
    /\ UNCHANGED <<numbersIn, target, closestSolution, solutionAttempts, fmt,
                   failed, rng, rpn, history>>

Format ==
    /\ pc = "returned"
    /\ \E ignoreMultiplyByOne \in BOOLEAN :
          fmt' = formatSolution(sequence, target, ignoreMultiplyByOne)
    /\ pc' = "formatted"
    /\ UNCHANGED <<numbersIn, target, gen, sequence, interimResults,
                   closestSolution, solutionAttempts, failed, rng, rpn, history>>

Next == Call \/ Step \/ Return \/ Format

Spec == Init /\ [][Next]_vars

----------------------------------------------------------------------------
(* SpecSearch: the search loop of __main__, lines 176-204, with the random *)
(* source seeded and every outcome of the time checks                      *)

\* a variant that also replaces the candidate on a tie
RECURSIVE updateClosestOnTie(_, _, _, _, _)
updateClosestOnTie(closest, results, k, seq, targetArg) ==
    IF k > Len(results) THEN closest
    ELSE LET result == results[k]
             next ==
                 IF closest = None THEN <<result, seq>>
                 ELSE IF Abs(targetArg - result) <= Abs(targetArg - closest[1])
                      THEN <<result, seq>>
                      ELSE closest
         IN  updateClosestOnTie(next, results, k + 1, seq, targetArg)

\* lines 187-192, from result k of the list on
RECURSIVE updateClosest(_, _, _, _, _)
updateClosest(closest, results, k, seq, targetArg) ==
    IF k > Len(results) THEN closest
    ELSE LET result == results[k]
             next ==
                 IF closest = None THEN <<result, seq>>
                 ELSE IF Abs(targetArg - result) < Abs(targetArg - closest[1])
                      THEN <<result, seq>>
                      ELSE closest
         IN  updateClosest(next, results, k + 1, seq, targetArg)

InitSearch ==
    /\ Idle
    /\ \E c \in SearchCases : numbersIn = c[1] /\ target = c[2]
    /\ rng \in 0..MaxSeed
    /\ rpn = None
    /\ pc = "while"

\* line 181 finds time left; line 183 calls the generator
LoopEnter ==
    /\ pc = "while"
    /\ solutionAttempts < MaxAttempts
    /\ GenBegin(Arrange([k \in 1..Len(numbersIn) |-> k], rng))
    /\ rng' = Advance(rng)
    /\ UNCHANGED <<target, sequence, interimResults, closestSolution,
                   solutionAttempts, fmt, failed, rpn, history>>

\* line 181 finds the limit reached
LoopTimeout ==
    /\ pc = "while"
    /\ pc' = "exit"
    /\ UNCHANGED <<numbersIn, target, gen, sequence, interimResults,
                   closestSolution, solutionAttempts, fmt, failed, rng, rpn,
                   history>>

SeededStep ==
    LET coinDrawn == Len(gen.stack) >= 2 /\ Len(gen.numbers) # 0
        coin      == CoinOf(rng)
        r1        == IF coinDrawn THEN Advance(rng) ELSE rng
        sampled   == nextElement(gen, coin) = "operator"
    IN  /\ pc = "generate"
        /\ GenStep(coin, Arrange(operatorSet, r1))
        /\ rng' = IF sampled THEN Advance(r1) ELSE r1
        /\ UNCHANGED <<numbersIn, target, sequence, interimResults,
                       closestSolution, solutionAttempts, fmt, failed, rpn,
                       history>>

\* a variant without the break of lines 193-194
UpdateNoBreak ==
    /\ pc = "returned"
    /\ solutionAttempts' = solutionAttempts + 1
    /\ closestSolution' =
          updateClosest(closestSolution, interimResults, 1, sequence, target)
    /\ history' = history \cup Range(interimResults)
    /\ pc' = "while"
    /\ UNCHANGED <<numbersIn, target, gen, sequence, interimResults, fmt,
                   failed, rng, rpn>>

\* lines 186-194
Update ==
    /\ pc = "returned"
    /\ solutionAttempts' = solutionAttempts + 1
    /\ closestSolution' =
          updateClosest(closestSolution, interimResults, 1, sequence, target)
    /\ history' = history \cup Range(interimResults)
    /\ pc' = IF target \in Range(interimResults) THEN "exit" ELSE "while"
    /\ UNCHANGED <<numbersIn, target, gen, sequence, interimResults, fmt,
                   failed, rng, rpn>>

\* lines 196-204
\* the test of line 200 with "in" for "not in"
reportMissInverted(targetArg, results) == targetArg \in Range(results)

\* line 200: the target is not among the last attempt's interim results
reportMiss(targetArg, results) == targetArg \notin Range(results)

Report ==
    /\ pc = "exit"
    /\ IF interimResults = None
       THEN /\ pc' = "NameError"
            /\ UNCHANGED <<target, sequence, fmt, failed>>
       ELSE LET miss == reportMiss(target, interimResults)
                t    == IF miss THEN closestSolution[1] ELSE target
                seq  == IF miss THEN closestSolution[2] ELSE sequence
                f    == formatSolution(seq, t, TRUE)
            IN  /\ failed' = IF miss
                             THEN <<closestSolution[1],
                                    Abs(target - closestSolution[1])>>
                             ELSE failed
                /\ target' = t
                /\ sequence' = seq
                /\ fmt' = f
                /\ pc' = IF f.error = "none" THEN "done" ELSE f.error
    /\ UNCHANGED <<numbersIn, gen, interimResults, closestSolution,
                   solutionAttempts, rng, rpn, history>>

NextSearch ==
    \/ LoopEnter
    \/ LoopTimeout
    \/ SeededStep
    \/ (GenReturn /\ UNCHANGED <<numbersIn, target, closestSolution,
                                 solutionAttempts, fmt, failed, rng, rpn, history>>)
    \/ Update
    \/ Report

SpecSearch == InitSearch /\ [][NextSearch]_vars

----------------------------------------------------------------------------
(* Reading an infix string back: the arithmetic value of a fully           *)
(* parenthesised expression and the number literals it holds.  Used to     *)
(* state the properties below; not part of the program.                    *)

DigitValue(char) == CHOOSE d \in 0..9 : Digits[d + 1] = char

Exact(v) == [ok |-> TRUE, v |-> v]

Inexact == [ok |-> FALSE, v |-> 0]

Arith(a, op, b) ==
    IF ~a.ok \/ ~b.ok THEN Inexact
    ELSE CASE op = "+" -> Exact(a.v + b.v)
           [] op = "-" -> Exact(a.v - b.v)
           [] op = "*" -> Exact(a.v * b.v)
           [] op = "/" -> IF b.v <= 0 THEN Inexact
                          ELSE IF a.v % b.v # 0 THEN Inexact
                          ELSE Exact(a.v \div b.v)

ReadChar(st, char) ==
    IF isnumeric(char)
    THEN [st EXCEPT !.cur = (IF @ < 0 THEN 0 ELSE @) * 10 + DigitValue(char)]
    ELSE LET vals == IF st.cur >= 0 THEN Append(st.vals, Exact(st.cur)) ELSE st.vals
             lits == IF st.cur >= 0 THEN Append(st.lits, st.cur) ELSE st.lits
         IN  IF char \in {"+", "-", "*", "/"}
             THEN [st EXCEPT !.vals = vals, !.lits = lits, !.cur = -1,
                             !.ops = Append(@, char)]
             ELSE IF char = ")" /\ Len(vals) >= 2 /\ Len(st.ops) >= 1
             THEN [st EXCEPT !.vals = SetLast(Front(vals),
                                              Arith(vals[Len(vals) - 1],
                                                    Last(st.ops), Last(vals))),
                             !.lits = lits, !.cur = -1,
                             !.ops = Front(@)]
             ELSE [st EXCEPT !.vals = vals, !.lits = lits, !.cur = -1]

RECURSIVE ReadFrom(_, _, _)
ReadFrom(st, string, k) ==
    IF k > Len(string) THEN ReadChar(st, " ")
    ELSE ReadFrom(ReadChar(st, string[k]), string, k + 1)

Read(string) ==
    ReadFrom([vals |-> <<>>, ops |-> <<>>, cur |-> -1, lits |-> <<>>], string, 1)

\* the string is one expression and this is its value
HasValue(string, v) ==
    LET st == Read(string)
    IN  Len(st.vals) = 1 /\ Len(st.ops) = 0 /\ st.vals[1] = Exact(v)

Literals(string) == Read(string).lits

Count(list, v) == Cardinality({k \in 1..Len(list) : list[k] = v})

\* every value occurs in list at most as often as in bag
UsesAtMostOnce(list, bag) == \A v \in Range(list) : Count(list, v) <= Count(bag, v)

\* the number tokens and the operator tokens of a sequence
NumbersOf(seq) == SelectSeq(seq, LAMBDA e : e.kind = "int")

OperatorsOf(seq) == SelectSeq(seq, LAMBDA e : e.kind = "str")

\* replaying a sequence through rpnEvaluate from element k on, recording the
\* stack top after each operator
RECURSIVE Replay(_, _, _)
Replay(st, seq, k) ==
    IF k > Len(seq) \/ st.raised THEN st
    ELSE IF seq[k].kind = "str" /\ Len(st.stack) < 2
    THEN [st EXCEPT !.raised = TRUE]
    ELSE LET r == rpnEvaluate(st.stack, seq[k])
         IN  Replay([stack  |-> r.stack,
                     raised |-> r.raised,
                     tops   |-> IF seq[k].kind = "str" /\ ~r.raised
                                THEN Append(st.tops, Last(r.stack))
                                ELSE st.tops],
                    seq, k + 1)

Replayed(seq) == Replay([stack |-> <<>>, raised |-> FALSE, tops |-> <<>>], seq, 1)

----------------------------------------------------------------------------
(* Properties of rpnEvaluate, checked under SpecEval                        *)

\* C1: for a stack whose top two values are a (second from top) and b (top),
\* non-negative, '+' and '*' never fail, '-' fails iff a < b, '/' fails iff
\* b = 0 or a is not a multiple of b; a call that succeeds leaves the stack
\* one shorter with a+b, a-b, a*b or a/b on top and the rest unchanged.
C1_EvaluatorContract ==
    (pc = "rpnEvaluate" /\ rpn.state # "called" /\ rpn.element.kind = "str") =>
        LET s   == rpn.before
            n   == Len(s)
            a   == s[n - 1]
            b   == s[n]
            op  == rpn.element.val
            fails ==
                \/ op = "-" /\ a < b
                \/ op = "/" /\ (b = 0 \/ ~ \E q \in 0..a : q * b = a)
            top == Last(rpn.stack)
        IN  /\ rpn.state = "raised" <=> fails
            /\ rpn.state = "returned" =>
                  /\ Len(rpn.stack) = n - 1
                  /\ \A k \in 1..(n - 2) : rpn.stack[k] = s[k]
                  /\ op = "+" => top = a + b
                  /\ op = "-" => top + b = a
                  /\ op = "*" => top = a * b
                  /\ op = "/" => top * b = a

C1_Witness ==
    /\ pc = "rpnEvaluate"
    /\ rpn.state = "returned"
    /\ rpn.element = Op("/")
    /\ rpn.before = <<3, 4, 2>>
    /\ rpn.stack = <<3, 2>>

\* C2: a call of rpnEvaluate that fails leaves the stack exactly as it was
\* given: same length, same values.
C2_FailureLeavesStack ==
    (pc = "rpnEvaluate" /\ rpn.state = "raised") => rpn.stack = rpn.before

C2_Witness ==
    /\ pc = "rpnEvaluate"
    /\ rpn.state = "raised"
    /\ rpn.element = Op("-")
    /\ rpn.before = <<1, 2, 3>>
    /\ rpn.stack = <<1, 2, 3>>

----------------------------------------------------------------------------
(* Properties of generateRandomSequence and formatSolution, checked under  *)
(* Spec                                                                    *)

Values(tokens) == [k \in 1..Len(tokens) |-> tokens[k].val]

\* C3: the generator never pops from an exhausted number list, makes exactly
\* LoopSteps passes and returns 11 tokens: 6 numbers that are a permutation
\* of the input multiset and 5 operators.  While it runs, the numbers already
\* in the sequence and those not yet consumed are together the input multiset.
C3_SequenceShape ==
    /\ pc # "IndexError"
    /\ pc = "generate" =>
          LET nums == Values(NumbersOf(gen.sequence)) \o gen.numbers
          IN  /\ gen.i <= LoopSteps
              /\ Len(gen.sequence) = 2 + gen.i
              /\ \A v \in Range(nums) \cup Range(numbersIn) :
                    Count(nums, v) = Count(numbersIn, v)
    /\ pc \in {"returned", "formatted"} =>
          LET nums == Values(NumbersOf(sequence))
              ops  == Values(OperatorsOf(sequence))
          IN  /\ Len(sequence) = 11
              /\ Len(nums) = 6
              /\ Len(ops) = 5
              /\ \A v \in Range(nums) \cup Range(numbersIn) :
                    Count(nums, v) = Count(numbersIn, v)
              /\ Range(ops) \subseteq Range(operatorSet)

C3_Witness ==
    /\ pc = "returned"
    /\ numbersIn = <<1, 1, 1, 1, 1, 10>>
    /\ sequence[4] = Num(10)
    /\ sequence[10].kind = "int"
    /\ sequence[11] = Op("/")

\* C9: the interim results returned with a sequence are the source numbers in
\* input order followed by the five stack tops that replaying the sequence
\* through rpnEvaluate on an empty stack gives after each operator; the last
\* of them is the one value the replay leaves on the stack.  The same holds
\* of every prefix the generator has built, whose replay also gives the
\* generator's stack.
C9_ReplayReproducesInterimResults ==
    /\ pc = "generate" =>
          LET r == Replayed(gen.sequence)
          IN  /\ ~r.raised
              /\ gen.interimResults = numbersIn \o r.tops
              /\ gen.stack = r.stack
    /\ pc \in {"returned", "formatted"} =>
          LET r == Replayed(sequence)
          IN  /\ ~r.raised
              /\ Len(r.tops) = 5
              /\ interimResults = numbersIn \o r.tops
              /\ r.stack = <<Last(interimResults)>>

C9_Witness ==
    /\ pc = "returned"
    /\ numbersIn = <<1, 1, 1, 1, 1, 10>>
    /\ sequence[1] = Num(10)
    /\ SubSeq(interimResults, 7, 11) = <<11, 10, 10, 9, 9>>

\* C10: formatting a generated sequence with ignoreMultiplyByOne on and off
\* ends with the same value on top of the numeric stack.
C10_SameFinalValue ==
    pc = "formatted" =>
        LET on  == formatSolution(sequence, target, TRUE)
            off == formatSolution(sequence, target, FALSE)
        IN  /\ on.error = "none"
            /\ off.error = "none"
            /\ Last(on.loop.calcStack) = Last(off.loop.calcStack)

----------------------------------------------------------------------------
(* Properties of the search loop, checked under SpecSearch                 *)

Searching == pc \in {"while", "generate", "returned"}

Crashed == pc \in {"NameError", "IndexError", "ValueError"}

\* the expression of the equation that formatSolution returned
Expression == Last(fmt.loop.outputStack)

\* C4: when the search ends on an exact match, the reported expression is
\* over the source numbers, each used at most once, its value is the target
\* and the equation reported is '<expression> = <target>'.
C4_ExactEquationIsTrue ==
    (pc = "done" /\ failed = None) =>
        /\ fmt.output = Expression \o <<" ", "=", " ">> \o str(target)
        /\ UsesAtMostOnce(Literals(Expression), numbersIn)
        /\ HasValue(Expression, target)

\* C5: when the search ends without an exact match, the reported equation is
\* '<expression> = <bestValue>' and the expression has the value bestValue.
C5_BestEffortEquationIsTrue ==
    (pc = "done" /\ failed # None) =>
        /\ fmt.output = Expression \o <<" ", "=", " ">> \o str(closestSolution[1])
        /\ HasValue(Expression, closestSolution[1])

\* C6: after every completed iteration the candidate's value is the closest
\* to the target of all interim results examined so far and is one of the
\* interim results of the candidate's sequence; the candidate is replaced
\* only by a strictly closer result.
C6_ClosestAfterIteration ==
    (Searching /\ solutionAttempts >= 1) =>
        /\ closestSolution # None
        /\ closestSolution[1] \in history
        /\ \A r \in history :
              Abs(target - closestSolution[1]) <= Abs(target - r)
        /\ closestSolution[1] \in
              Range(numbersIn) \cup Range(Replayed(closestSolution[2]).tops)

C6_ReplacedOnlyByCloser ==
    (closestSolution # None /\ closestSolution' # closestSolution) =>
        Abs(target - closestSolution'[1]) < Abs(target - closestSolution[1])

\* C6 as one formula
C6_BestSoFar == []C6_ClosestAfterIteration /\ [][C6_ReplacedOnlyByCloser]_vars

C6_Witness ==
    /\ pc = "while"
    /\ solutionAttempts >= 2
    /\ closestSolution[2] # sequence
    /\ \E k \in 7..Len(interimResults) :
          Abs(target - interimResults[k]) = Abs(target - closestSolution[1])

\* C7: an attempt whose interim results contain the target ends the search
\* with the candidate (target, that attempt's sequence) and no attempt
\* follows; an attempt whose results do not contain it leads back to the
\* time check; the search is left only by a hit or by the time check, and
\* the time check is not made while an attempt is running.
C7_Step ==
    /\ (pc = "returned" /\ target \in Range(interimResults)) =>
          (pc' = "exit" /\ closestSolution' = <<target, sequence>>)
    /\ (pc = "returned" /\ target \notin Range(interimResults)) => pc' = "while"
    /\ (pc' = "exit" /\ pc # "exit") =>
          (pc = "while" \/ (pc = "returned" /\ target \in Range(interimResults)))
    /\ pc = "generate" => pc' \in {"generate", "returned", "IndexError"}
    /\ ~Searching => ~Searching'

C7_StopsAtFirstHit == [][C7_Step]_vars

C7_Witness ==
    /\ pc = "exit"
    /\ solutionAttempts >= 2
    /\ target \in Range(interimResults)
    /\ closestSolution = <<target, sequence>>

\* C8: the search driver does not fail, and a search that ends by the time
\* limit without an exact match ends with the best-effort report: the
\* closest value, its gap to the target and the candidate's sequence.
C8_TimeoutReportsBestEffort ==
    /\ ~Crashed
    /\ (pc = "done" /\ failed # None) =>
          /\ failed[1] = closestSolution[1]
          /\ sequence = closestSolution[2]
          /\ fmt.error = "none"

----------------------------------------------------------------------------
(* Properties of the generator and the formatter, checked under Spec        *)

\* the targets that tell formatSolution's runs on a sequence apart: each
\* value an operator can produce, the target of the run, and a value no
\* expression has
TargetsFor(results) == Range(results) \cup {target, -1}

\* the exception that ends formatSolution(seq, targetArg, ignoreMultiplyByOne),
\* "none" if it returns: the error field of formatSolution, without building
\* the returned strings
FormatError(seq, targetArg, ignoreMultiplyByOne) ==
    LET st == fmtLoop(fmtStart, seq, 1, targetArg, ignoreMultiplyByOne)
    IN  IF st.error # "none" THEN st.error
        ELSE IF Len(st.outputStack) = 0 THEN "IndexError"
        ELSE "none"

\* C11: no ValueError of rpnEvaluate leaves generateRandomSequence, and
\* formatSolution, given a sequence the generator returned, any target and
\* either setting of ignoreMultiplyByOne, ends without an exception; so it
\* does on every sequence the generator has built so far.
C11_NoEvaluatorFailureEscapes ==
    /\ pc # "ValueError"
    /\ pc = "generate" =>
          \A ignoreMultiplyByOne \in BOOLEAN :
             FormatError(gen.sequence, -1, ignoreMultiplyByOne) = "none"
    /\ pc = "returned" =>
          \A t \in TargetsFor(interimResults) : \A ignoreMultiplyByOne \in BOOLEAN :
             FormatError(sequence, t, ignoreMultiplyByOne) = "none"
    /\ pc = "formatted" => fmt.error = "none"

\* a sequence with a skipped multiplication by 1, a subtraction and a
\* division after it, formatted to the end
C11_Witness ==
    /\ pc = "formatted"
    /\ fmt.error = "none"
    /\ fmt.ignoreMultiplyByOne
    /\ fmt.loop.consumed = Len(sequence)
    /\ sequence[3] = Op("*")
    /\ sequence[2] = Num(1)
    /\ \E j, k \in 4..Len(sequence) :
          j < k /\ sequence[j] = Op("-") /\ sequence[k] = Op("/")

\* C14: while the generator runs its stack holds at least one value and as
\* many values as the sequence has numbers more than operators; it never
\* pops an exhausted number list; after the last pass the stack holds one
\* value.  An operator is appended only when the stack held two values or
\* more, a number only when an unconsumed number was left, which it is.
C14_State ==
    /\ pc # "IndexError"
    /\ pc = "generate" =>
          /\ Len(gen.stack) >= 1
          /\ Len(gen.stack) =
                Len(NumbersOf(gen.sequence)) - Len(OperatorsOf(gen.sequence))
          /\ gen.i = LoopSteps => Len(gen.stack) = 1

C14_Step ==
    /\ (pc = "generate" /\ pc' = "generate") =>
          /\ Last(gen'.sequence).kind = "str" => Len(gen.stack) >= 2
          /\ Last(gen'.sequence).kind = "int" =>
                /\ Len(gen.numbers) >= 1
                /\ Last(gen'.sequence) = Num(Last(gen.numbers))
                /\ gen'.numbers = Front(gen.numbers)
    /\ (pc = "generate" /\ pc' = "returned") => Len(gen.stack) = 1

\* C14 as one formula
C14_StackDiscipline == []C14_State /\ [][C14_Step]_vars

\* the last pass is done, the stack holds one value, no number is left, and
\* the stack had gone down to one value before (third token an operator)
C14_Witness ==
    /\ pc = "generate"
    /\ gen.i = LoopSteps
    /\ Len(gen.stack) = 1
    /\ Len(gen.numbers) = 0
    /\ gen.sequence[3].kind = "str"
    /\ gen.sequence[4].kind = "int"

\* by how many the numbers of the first k tokens exceed the operators
Excess(seq, k) ==
    Len(NumbersOf(SubSeq(seq, 1, k))) - Len(OperatorsOf(SubSeq(seq, 1, k)))

\* C15 as stated: in a returned sequence every prefix has an excess of at
\* least 1, every proper prefix of two tokens or more an excess of at least
\* 2, and only the complete sequence has an excess of exactly 1.
C15_ExcessOneOnlyAtEnd ==
    pc = "returned" =>
        /\ \A k \in 1..Len(sequence) : Excess(sequence, k) >= 1
        /\ \A k \in 2..(Len(sequence) - 1) : Excess(sequence, k) >= 2
        /\ Excess(sequence, Len(sequence)) = 1

\* C15, amended: in a returned sequence every prefix has an excess of at
\* least 1 and the complete sequence of 11 tokens an excess of exactly 1; a
\* proper prefix has an excess of exactly 1 only if it is the first token or
\* ends with an operator, and it is followed by a number.  The same holds
\* of the sequence built so far while the generator runs.
C15_PrefixExcess ==
    LET seq == IF pc = "generate" THEN gen.sequence
               ELSE IF pc \in {"returned", "formatted"} THEN sequence
               ELSE <<>>
    IN  /\ \A k \in 1..Len(seq) :
              /\ Excess(seq, k) >= 1
              /\ (Excess(seq, k) = 1 /\ k > 1) => seq[k].kind = "str"
              /\ (Excess(seq, k) = 1 /\ k < Len(seq)) => seq[k + 1].kind = "int"
        /\ pc = "returned" =>
              /\ Len(seq) = 11
              /\ Excess(seq, Len(seq)) = 1

\* a returned sequence whose first three tokens are a complete expression
C15_Witness ==
    /\ pc = "returned"
    /\ Excess(sequence, 3) = 1
    /\ Excess(sequence, 7) = 1
    /\ Excess(sequence, 11) = 1

\* C16: every value on the generator's stack and every interim result is a
\* non-negative integer; whenever an operator is appended, at least one of
\* the four operators applies to the stack, the appended one applies, the
\* stack is what applying it leaves (one value shorter) and the interim
\* result recorded is the value it computed.
C16_State ==
    pc = "generate" =>
        /\ \A k \in 1..Len(gen.stack) : gen.stack[k] \in Nat
        /\ \A k \in 1..Len(gen.interimResults) : gen.interimResults[k] \in Nat

C16_Step ==
    (pc = "generate" /\ pc' = "generate" /\ Last(gen'.sequence).kind = "str") =>
        LET r == rpnEvaluate(gen.stack, Last(gen'.sequence))
        IN  /\ \E o \in Range(operatorSet) : ~rpnEvaluate(gen.stack, Op(o)).raised
            /\ ~r.raised
            /\ gen'.stack = r.stack
            /\ Len(gen'.stack) = Len(gen.stack) - 1
            /\ gen'.interimResults = Append(gen.interimResults, Last(r.stack))

\* C16 as one formula
C16_OperatorAlwaysApplies == []C16_State /\ [][C16_Step]_vars

\* an operator was appended to a stack on which '-' and '/' both fail
C16_Witness ==
    /\ pc = "generate"
    /\ Last(gen.sequence).kind = "str"
    /\ LET before == Replayed(Front(gen.sequence)).stack
       IN  /\ rpnEvaluate(before, Op("-")).raised
           /\ rpnEvaluate(before, Op("/")).raised
           /\ Len(gen.stack) = Len(before) - 1

\* C17 as stated: every element of the returned interim results is a value
\* that was on top of the stack right after an operator was applied.
C17_AllAreOperatorResults ==
    pc = "returned" =>
        \A k \in 1..Len(interimResults) :
           interimResults[k] \in Range(Replayed(sequence).tops)

\* C17, amended: the interim results are the six source numbers, which are
\* the number tokens of the sequence, followed by one value per operator of
\* the sequence, each recorded when the operator was applied and equal to
\* the top of the stack right after it.
C17_RecordedAtReduction ==
    /\ pc = "generate" =>
          /\ Len(gen.interimResults) =
                Len(numbersIn) + Len(OperatorsOf(gen.sequence))
          /\ SubSeq(gen.interimResults, 1, Len(numbersIn)) = numbersIn
          /\ Last(gen.sequence).kind = "str" =>
                Last(gen.interimResults) = Last(gen.stack)
    /\ pc = "returned" =>
          /\ Len(interimResults) = Len(numbersIn) + Len(OperatorsOf(sequence))
          /\ \A k \in 1..Len(numbersIn) :
                /\ interimResults[k] = numbersIn[k]
                /\ Num(interimResults[k]) \in Range(sequence)
          /\ \A k \in 1..Len(OperatorsOf(sequence)) :
                interimResults[Len(numbersIn) + k] = Replayed(sequence).tops[k]

\* a returned list with a source number that no operator produced
C17_Witness ==
    /\ pc = "returned"
    /\ Len(interimResults) = 11
    /\ interimResults[6] = 10
    /\ 10 \notin Range(Replayed(sequence).tops)
    /\ interimResults[11] = Last(Replayed(sequence).stack)

\* the top of the evaluation stack after each token of a sequence
RECURSIVE TopsFrom(_, _, _, _)
TopsFrom(stack, seq, k, tops) ==
    IF k > Len(seq) THEN tops
    ELSE LET r == rpnEvaluate(stack, seq[k])
         IN  TopsFrom(r.stack, seq, k + 1, Append(tops, Last(r.stack)))

TopAfter(seq) == TopsFrom(<<>>, seq, 1, <<>>)

\* where the sub-expression that ends with token j begins
RECURSIVE SpanStart(_, _, _)
SpanStart(seq, j, need) ==
    LET left == IF seq[j].kind = "str" THEN need + 1 ELSE need - 1
    IN  IF left = 0 THEN j ELSE SpanStart(seq, j - 1, left)

\* the numbers of the sub-expression that ends with token j
SpanNumbers(seq, j) == Values(NumbersOf(SubSeq(seq, SpanStart(seq, j, 1), j)))

\* token k is an operator that formatSolution applies: not a multiplication
\* or division by 1 that it skips
Applied(seq, tops, k, ignoreMultiplyByOne) ==
    /\ seq[k].kind = "str"
    /\ ~(ignoreMultiplyByOne /\ seq[k].val \in {"*", "/"} /\ tops[k - 1] = 1)

\* the applied operators whose result is the target
Hits(seq, targetArg, ignoreMultiplyByOne) ==
    LET tops == TopAfter(seq)
    IN  {k \in 1..Len(seq) :
            Applied(seq, tops, k, ignoreMultiplyByOne) /\ tops[k] = targetArg}

\* the string is an expression over the numbers of `numbers`: all of them,
\* or, when multiplications and divisions by 1 are skipped, all of them but
\* those of the operands of value 1 that were left out
WritesOut(string, numbers, ignoreMultiplyByOne) ==
    LET lits == Literals(string)
    IN  \A v \in Range(lits) \cup Range(numbers) :
           IF ignoreMultiplyByOne
           THEN Count(lits, v) <= Count(numbers, v)
           ELSE Count(lits, v) = Count(numbers, v)

\* C18: formatSolution stops at the first operator it applies whose result
\* is the target: it has consumed the tokens up to that operator and no
\* more, and the expression it returns is the sub-expression that ends
\* there, with the target as its value.  If no operator it applies gives the
\* target, it consumes every token and returns the expression of the whole
\* sequence.
C18_StopsAtFirstTargetValue ==
    pc = "formatted" =>
        LET hits == Hits(sequence, fmt.target, fmt.ignoreMultiplyByOne)
            j    == IF hits = {} THEN Len(sequence)
                    ELSE CHOOSE k \in hits : \A h \in hits : k <= h
        IN  /\ fmt.error = "none"
            /\ fmt.loop.consumed = j
            /\ fmt.loop.broke <=> hits # {}
            /\ HasValue(Expression, TopAfter(sequence)[j])
            /\ WritesOut(Expression, SpanNumbers(sequence, j),
                         fmt.ignoreMultiplyByOne)
            /\ fmt.output = Expression \o <<" ", "=", " ">> \o str(fmt.target)

\* the loop was left at a token in the middle of the sequence, with tokens
\* before that sub-expression and after it
C18_Witness ==
    /\ pc = "formatted"
    /\ fmt.loop.broke
    /\ fmt.loop.consumed = 7
    /\ SpanStart(sequence, 7, 1) = 3
    /\ HasValue(Expression, fmt.target)

\* no applied operator gave the target and the whole sequence was written
C18_WitnessNoHit ==
    /\ pc = "formatted"
    /\ ~fmt.loop.broke
    /\ fmt.loop.consumed = Len(sequence)
    /\ Len(Literals(Expression)) = 6

\* the states of the formatter's loop in the call that set fmt
FormatterStates ==
    fmtTrace(<<fmtStart>>, sequence, 1, fmt.target, fmt.ignoreMultiplyByOne)

\* the two stacks of a loop state are as long as each other and the string
\* on top of one reads back to the number on top of the other
TopsAgree(st) ==
    /\ Len(st.calcStack) = Len(st.outputStack)
    /\ Len(st.calcStack) > 0 =>
          HasValue(Last(st.outputStack), Last(st.calcStack))

\* what is below the top of `cur` is as it was in `prev`
BelowTopKept(prev, cur) ==
    LET n == Len(cur.calcStack) - 1
    IN  /\ n <= Len(prev.calcStack)
        /\ SubSeq(cur.calcStack, 1, n) = SubSeq(prev.calcStack, 1, n)
        /\ SubSeq(cur.outputStack, 1, n) = SubSeq(prev.outputStack, 1, n)

\* `string` is '(' left ' ' operator ' ' right ')'
Joins(string, left, operator, right) ==
    /\ Len(string) = Len(left) + Len(right) + 5
    /\ SubSeq(string, 2, Len(left) + 1) = left
    /\ SubSeq(string, Len(left) + 2, Len(left) + 4) = <<" ", operator, " ">>
    /\ SubSeq(string, Len(left) + 5, Len(string) - 1) = right

\* the operator was applied to prev, giving cur: the new string joins the
\* string below the top (left) and the top (right) of prev in this order,
\* for '+' and '*' possibly in the other
OperandOrder(prev, cur, operator) ==
    LET left  == prev.outputStack[Len(prev.outputStack) - 1]
        right == Last(prev.outputStack)
        new   == Last(cur.outputStack)
    IN  \/ Joins(new, left, operator, right)
        \/ operator \in {"+", "*"} /\ Joins(new, right, operator, left)

\* the token is a multiplication or division by 1 that the call which set
\* fmt skips in the loop state prev
SkippedAt(prev, token) ==
    /\ fmt.ignoreMultiplyByOne
    /\ token.kind = "str"
    /\ token.val \in {"*", "/"}
    /\ Last(prev.calcStack) = 1

\* C19: after every token formatSolution has processed (a number pushed, an
\* operator applied with or without exchanging its operands, a multiply or
\* divide by 1 skipped) its numeric stack and its string stack have the same
\* length and at every position the string reads back to the number; the
\* operands of '-' and '/' are never exchanged.
C19_ParallelStacks ==
    pc = "formatted" =>
        LET states == FormatterStates
        IN  /\ Len(states) = fmt.loop.consumed + 1
            /\ \A n \in 2..Len(states) :
                  LET prev == states[n - 1]
                      cur  == states[n]
                      token == sequence[n - 1]
                  IN  /\ TopsAgree(cur)
                      /\ BelowTopKept(prev, cur)
                      /\ (token.kind = "str" /\ ~SkippedAt(prev, token)) =>
                            OperandOrder(prev, cur, token.val)
                      /\ SkippedAt(prev, token) =>
                            /\ cur.calcStack = Front(prev.calcStack)
                            /\ cur.outputStack = Front(prev.outputStack)
            /\ Last(states) = fmt.loop

\* a run of the formatter with a skipped operator, an applied '-' and an
\* applied '+' or '*' whose operands were exchanged
C19_Witness ==
    /\ pc = "formatted"
    /\ fmt.ignoreMultiplyByOne
    /\ LET states == FormatterStates
       IN  /\ \E n \in 2..Len(states) : SkippedAt(states[n - 1], sequence[n - 1])
           /\ \E n \in 2..Len(states) :
                 /\ sequence[n - 1] = Op("-")
                 /\ Len(Literals(Last(states[n].outputStack))) >= 3
           /\ \E n \in 2..Len(states) :
                 /\ sequence[n - 1].kind = "str"
                 /\ sequence[n - 1].val \in {"+", "*"}
                 /\ ~SkippedAt(states[n - 1], sequence[n - 1])
                 /\ Len(states[n - 1].outputStack[Len(states[n - 1].outputStack) - 1])
                       < Len(Last(states[n - 1].outputStack))

\* C12, the generator's part, under Spec: with the numbers [2,2,2,2,2,2] no
\* interim result is 999 and none is larger than 64.
C12_GeneratorFacts ==
    (numbersIn = <<2, 2, 2, 2, 2, 2>> /\ pc \in {"generate", "returned"}) =>
        LET results == IF pc = "generate" THEN gen.interimResults
                       ELSE interimResults
        IN  \A k \in 1..Len(results) : results[k] # 999 /\ results[k] <= 64

\* 64 is an interim result of a returned sequence
C12_SixtyFourProduced ==
    /\ numbersIn = <<2, 2, 2, 2, 2, 2>>
    /\ pc = "returned"
    /\ Last(interimResults) = 64

----------------------------------------------------------------------------
(* Properties of single inputs of the search, checked under SpecSearch      *)

\* C12: with the numbers [2,2,2,2,2,2] and the target 999 no attempt has 999
\* among its interim results, none has one larger than 64, and every search
\* run ends reporting no exact match and a closest value of at most 64.
C12_EveryRunEndsInexactAtMost64 ==
    numbersIn = <<2, 2, 2, 2, 2, 2>> =>
        /\ \A v \in history : v # 999 /\ v <= 64
        /\ closestSolution # None => closestSolution[1] <= 64
        /\ (~Searching /\ pc # "exit") =>
              /\ pc = "done"
              /\ failed # None
              /\ failed[1] <= 64

\* the runs of C12 that do report: no exact match, a closest value of at most 64
C12_ReportingRunsEndInexact ==
    (numbersIn = <<2, 2, 2, 2, 2, 2>> /\ pc = "done") =>
        /\ failed # None
        /\ failed[1] <= 64
        /\ fmt.error = "none"

SameBag(list1, list2) ==
    \A v \in Range(list1) \cup Range(list2) : Count(list1, v) = Count(list2, v)

\* C20: no step of the search changes the caller's list of source numbers,
\* and every attempt starts from these six numbers: its first two tokens and
\* the numbers it has not consumed are together the source numbers, its
\* interim results are the source numbers, and nothing else of an earlier
\* attempt is in its frame.
C20_Step ==
    /\ numbersIn' = numbersIn
    /\ (pc = "while" /\ pc' = "generate") =>
          /\ gen'.i = 0
          /\ Len(gen'.sequence) = 2
          /\ gen'.stack = Values(gen'.sequence)
          /\ gen'.interimResults = numbersIn
          /\ SameBag(Values(gen'.sequence) \o gen'.numbers, numbersIn)
          /\ closestSolution' = closestSolution
          /\ solutionAttempts' = solutionAttempts

\* C20 as one formula
C20_CallerListUnchanged == [][C20_Step]_vars

\* a second or third attempt has begun, after one that consumed its copy of
\* the numbers, from all six numbers
C20_Witness ==
    /\ pc = "generate"
    /\ solutionAttempts >= 1
    /\ gen.i = 0
    /\ Len(numbersIn) = 6
    /\ Len(gen.numbers) = 4
    /\ Len(sequence) = 11
    /\ closestSolution # None

====
